---- MODULE Spec2Model ----
(***************************************************************************)
(* The VisualTesting helper of codeceptjs-visual-testing: the page          *)
(* normalisation protocol, the baseline store and the pixel comparison.    *)
(* One call of dontSeeVisualChanges is a sequence of steps, one per         *)
(* suspension point (await) of the code.                                    *)
(***************************************************************************)
EXTENDS Integers, Sequences, FiniteSets, TLC

\* ------------------------------------------------------------------ bounds

\* calls of dontSeeVisualChanges in one behaviour
MaxCalls == 3

\* page scripts run directly on one page in one behaviour
MaxScripts == 3

\* ------------------------------------------------------- program constants

\* options.allowedMismatchedPixelsPercent ?? 1
DefaultAllowed == 1

\* pixelmatch option { threshold: 0.1 }, in tenths of the colour scale 0..10
Threshold == 1

\* ---------------------------------------------------------------- the page

\* The document: body > [ div > [ t1, span > [ t2 ] ], p > [ t3 ] ].
Elements == {"body", "div", "span", "p"}
TextNodes == {"t1", "t2", "t3"}

\* document order of the elements, the order of querySelectorAll
DocOrder == <<"body", "div", "span", "p">>

\* firstChild / nextSibling chains
Children ==
  [n \in Elements \cup TextNodes |->
     CASE n = "body" -> <<"div", "p">>
       [] n = "div"  -> <<"t1", "span">>
       [] n = "span" -> <<"t2">>
       [] n = "p"    -> <<"t3">>
       [] OTHER      -> <<>>]

\* the elements a text node lies in
Ancestors ==
  [t \in TextNodes |->
     CASE t = "t1" -> {"div", "body"}
       [] t = "t2" -> {"span", "div", "body"}
       [] t = "t3" -> {"p", "body"}]

\* text contents, and the colour each is painted with (0 is the background)
Texts == {"A", "B", "C"}
Ink == [s \in Texts |-> CASE s = "A" -> 3 [] s = "B" -> 4 [] s = "C" -> 7]

\* the pixel a text node is painted at
Pos == [t \in TextNodes |-> CASE t = "t1" -> 1 [] t = "t2" -> 2 [] t = "t3" -> 3]

\* what the test page shows after a navigation: a label, the time of the
\* moment, a footer
PageLoads ==
  {f \in [TextNodes -> Texts] : f["t1"] = "A" /\ f["t3"] = "A"}

\* window sizes of the browser, <<width, height>>
Viewports == {<<10, 10>>}

Range(s) == {s[i] : i \in 1..Len(s)}

RECURSIVE Flatten(_)
Flatten(ss) == IF ss = <<>> THEN <<>> ELSE Head(ss) \o Flatten(Tail(ss))

\* getTextNodesUnderElement(node): the text nodes below node, depth first
RECURSIVE getTextNodesUnderElement(_)
getTextNodesUnderElement(node) ==
  Flatten([i \in 1..Len(Children[node]) |->
             LET c == Children[node][i]
             IN  IF c \in TextNodes THEN <<c>> ELSE getTextNodesUnderElement(c)])

\* document.querySelectorAll(selectors.join(',')): each matching element once,
\* in document order
querySelectorAll(selectors) ==
  SelectSeq(DocOrder, LAMBDA e : e \in Range(selectors))

\* [].concat(...targetNodes.map(getTextNodesUnderElement)): a text node below
\* two matched elements is listed once for each
MatchedTextNodes(selectors) ==
  LET targetNodes == querySelectorAll(selectors)
  IN  Flatten([i \in 1..Len(targetNodes) |-> getTextNodesUnderElement(targetNodes[i])])

\* the page script of _getIgnoredTexts
GetIgnoredTexts(txt, selectors) ==
  LET textNodes == MatchedTextNodes(selectors)
  IN  [i \in 1..Len(textNodes) |-> txt[textNodes[i]]]

\* the page script of _setIgnoredTexts substitutes iff the counts agree
CountsAgree(selectors, ignoredTexts) ==
  Len(ignoredTexts) = Len(MatchedTextNodes(selectors))

\* mutant of SetIgnoredTexts: the counts are not compared, a node without a
\* string of its own is emptied
SetIgnoredTexts_NoCheck(txt, selectors, ignoredTexts) ==
  LET textNodes == MatchedTextNodes(selectors)
      Last(t) == CHOOSE i \in 1..Len(textNodes) :
                   /\ textNodes[i] = t
                   /\ \A j \in (i + 1)..Len(textNodes) : textNodes[j] # t
  IN  [t \in TextNodes |->
         IF t \notin Range(textNodes) THEN txt[t]
         ELSE IF Last(t) <= Len(ignoredTexts) THEN ignoredTexts[Last(t)] ELSE ""]

\* the page script of _setIgnoredTexts: textNodes[i].textContent = ignoredTexts[i]
\* for i = 0, 1, ... (a node listed twice keeps the later string)
SetIgnoredTexts(txt, selectors, ignoredTexts) ==
  LET textNodes == MatchedTextNodes(selectors)
      Last(t) == CHOOSE i \in 1..Len(textNodes) :
                   /\ textNodes[i] = t
                   /\ \A j \in (i + 1)..Len(textNodes) : textNodes[j] # t
  IN  IF ~CountsAgree(selectors, ignoredTexts)
      THEN txt
      ELSE [t \in TextNodes |->
              IF t \in Range(textNodes) THEN ignoredTexts[Last(t)] ELSE txt[t]]

\* the page script of _setHiddenElements(options, true): the style element is
\* appended, the marker class is set on every matched element
HideClasses(cls, selectors) == cls \cup Range(querySelectorAll(selectors))
HideStyles(n) == n + 1

\* the page script of _setHiddenElements(options, false): getElementById
\* removes one style element, the marker class is removed everywhere
\* mutant of UnhideStyles: the style element is never removed
UnhideStyles_Keep(n) == n

UnhideStyles(n) == IF n > 0 THEN n - 1 ELSE 0
UnhideClasses(cls) == {}

\* a text node is painted unless the rule .e2e-visual-testing-hidden
\* { display: none } is in the page and an element around it carries the class
Visible(t, cls, styles) == styles = 0 \/ Ancestors[t] \cap cls = {}

\* driver.saveScreenshot: the image of the page
Render(txt, cls, styles, view) ==
  [width |-> view[1], height |-> view[2],
   data |-> [i \in 1..(view[1] * view[2]) |->
               IF \E t \in TextNodes : Pos[t] = i /\ Visible(t, cls, styles)
               THEN Ink[txt[CHOOSE t \in TextNodes : Pos[t] = i]]
               ELSE 0]]

\* ------------------------------------------------------------- the images

NoImage == [width |-> 0, height |-> 0, data |-> <<>>]

Abs(x) == IF x < 0 THEN 0 - x ELSE x

\* pixelmatch: the number of pixels whose colours differ by more than the threshold
pixelmatch(d1, d2) ==
  Cardinality({i \in 1..Len(d1) : Abs(d1[i] - d2[i]) > Threshold})

\* the diff image pixelmatch draws: mismatches in red (10), the rest dimmed (9)
DiffData(d1, d2) ==
  [i \in 1..Len(d1) |-> IF Abs(d1[i] - d2[i]) > Threshold THEN 10 ELSE 9]

\* pixelmatch throws unless both buffers have the length width * height * 4
SizesMatch(img1, img2) ==
  /\ Len(img1.data) = Len(img2.data)
  /\ Len(img1.data) = img1.width * img1.height

\* _compareImages: the mismatched pixel count over the pixel count of the
\* base image, kept as the pair of integers, and the diff image
CompareImages(img1, img2) ==
  [mismatched |-> pixelmatch(img1.data, img2.data),
   numPixels |-> img1.width * img1.height,
   pngDiffBuffer |-> [width |-> img1.width, height |-> img1.height,
                      data |-> DiffData(img1.data, img2.data)]]

\* mutant of Exceeds: >= in place of >
Exceeds_AtLeast(results, allowed) ==
  results.mismatched * 100 >= allowed * results.numPixels

\* results.mismatchedPixelsPercent > (allowedMismatchedPixelsPercent / 100)
Exceeds(results, allowed) ==
  results.mismatched * 100 > allowed * results.numPixels

\* ------------------------------------------------------------ the store

\* _getBaseImagePath, _getBaseIgnoredTextsPath, _getBaseDiffPath: a path is
\* <<folder, screenshot name, suffix>>
BaseImagePath(cfg, name) == <<cfg.imageFolder, name, ".png">>
BaseIgnoredTextsPath(cfg, name) == <<cfg.imageFolder, name, "_dom.json">>
BaseDiffPath(cfg, name) == <<cfg.diffFolder, name, ".png">>

\* driver.saveScreenshot('visual_temp.png') writes into the output folder; the
\* helper never reads that file, and its bytes are not kept here
TempPath == <<"output", "visual_temp", ".png">>
TempFile == [temp |-> TRUE]

existsSync(fs, p) == p \in DOMAIN fs
writeFileSync(fs, p, c) == [q \in DOMAIN fs \cup {p} |-> IF q = p THEN c ELSE fs[q]]
unlinkSync(fs, p) == [q \in DOMAIN fs \ {p} |-> fs[q]]

\* file contents: an image, a JSON array of strings, or bytes JSON.parse rejects
JsonFile(texts) == [json |-> texts]
CorruptFile == [corrupt |-> TRUE]
IsJson(c) == "json" \in DOMAIN c

\* mutant of GetBaseIgnoredTexts: the list is always empty
GetBaseIgnoredTexts_Empty(fs, p) == [texts |-> <<>>, files |-> fs]

\* mutant of GetBaseIgnoredTexts: the corrupt file is left where it is
GetBaseIgnoredTexts_KeepCorrupt(fs, p) ==
  IF ~existsSync(fs, p) THEN [texts |-> <<>>, files |-> fs]
  ELSE IF IsJson(fs[p]) THEN [texts |-> fs[p].json, files |-> fs]
  ELSE [texts |-> <<>>, files |-> fs]

\* _getBaseIgnoredTexts: [] when the file is absent; a corrupt file is deleted
GetBaseIgnoredTexts(fs, p) ==
  IF ~existsSync(fs, p) THEN [texts |-> <<>>, files |-> fs]
  ELSE IF IsJson(fs[p]) THEN [texts |-> fs[p].json, files |-> fs]
  ELSE [texts |-> <<>>, files |-> unlinkSync(fs, p)]

\* mutant of StoreBaseImage: the base folder is not made
StoreBaseImage_NoMkdir(fs, ds, cfg, buffer, name) ==
  LET written == writeFileSync(fs, BaseImagePath(cfg, name), buffer)
      snap == BaseIgnoredTextsPath(cfg, name)
  IN  [files |-> IF existsSync(written, snap) THEN unlinkSync(written, snap) ELSE written,
       dirs |-> ds]

\* mutant of StoreBaseImage: the snapshot of an earlier update is not cleared
StoreBaseImage_KeepSnapshot(fs, ds, cfg, buffer, name) ==
  [files |-> writeFileSync(fs, BaseImagePath(cfg, name), buffer),
   dirs |-> ds \cup {cfg.imageFolder}]

\* _storeBaseImage after the capture, up to the next await: the base folder is
\* made, the image written, and _updateIgnoredTexts clears the old snapshot
StoreBaseImage(fs, ds, cfg, buffer, name) ==
  LET written == writeFileSync(fs, BaseImagePath(cfg, name), buffer)
      snap == BaseIgnoredTextsPath(cfg, name)
  IN  [files |-> IF existsSync(written, snap) THEN unlinkSync(written, snap) ELSE written,
       dirs |-> ds \cup {cfg.imageFolder}]

\* mutant of AssertImagesSimilar: the base image is read, and the diff folder
\* made, before the base image is looked for
AssertImagesSimilar_ReadFirst(fs, ds, cfg, newImageBuffer, name, allowed) ==
  LET baseImagePath == BaseImagePath(cfg, name)
      diffImagePath == BaseDiffPath(cfg, name)
      results == CompareImages(fs[baseImagePath], newImageBuffer)
  IN  IF ~existsSync(fs, baseImagePath)
      THEN [files |-> fs, dirs |-> ds \cup {cfg.diffFolder}, result |-> "ENOENT"]
      ELSE IF ~SizesMatch(fs[baseImagePath], newImageBuffer)
      THEN [files |-> fs, dirs |-> ds \cup {cfg.diffFolder}, result |-> "ImageSizeError"]
      ELSE IF Exceeds(results, allowed)
      THEN [files |-> writeFileSync(fs, diffImagePath, results.pngDiffBuffer),
            dirs |-> ds \cup {cfg.diffFolder}, result |-> "VisualMismatch"]
      ELSE [files |-> fs, dirs |-> ds \cup {cfg.diffFolder}, result |-> "ok"]

\* mutant of AssertImagesSimilar: the diff image is written whatever the outcome
AssertImagesSimilar_AlwaysWrite(fs, ds, cfg, newImageBuffer, name, allowed) ==
  LET baseImagePath == BaseImagePath(cfg, name)
      diffImagePath == BaseDiffPath(cfg, name)
      results == CompareImages(fs[baseImagePath], newImageBuffer)
  IN  IF ~existsSync(fs, baseImagePath)
      THEN [files |-> fs, dirs |-> ds, result |-> "BaselineMissing"]
      ELSE IF ~SizesMatch(fs[baseImagePath], newImageBuffer)
      THEN [files |-> fs, dirs |-> ds \cup {cfg.diffFolder}, result |-> "ImageSizeError"]
      ELSE [files |-> writeFileSync(fs, diffImagePath, results.pngDiffBuffer),
            dirs |-> ds \cup {cfg.diffFolder},
            result |-> IF Exceeds(results, allowed) THEN "VisualMismatch" ELSE "ok"]

\* mutant of AssertImagesSimilar: a passing comparison clears the diff
\* artifact of an earlier failure
AssertImagesSimilar_ClearDiff(fs, ds, cfg, newImageBuffer, name, allowed) ==
  LET baseImagePath == BaseImagePath(cfg, name)
      diffImagePath == BaseDiffPath(cfg, name)
      results == CompareImages(fs[baseImagePath], newImageBuffer)
  IN  IF ~existsSync(fs, baseImagePath)
      THEN [files |-> fs, dirs |-> ds, result |-> "BaselineMissing"]
      ELSE IF ~SizesMatch(fs[baseImagePath], newImageBuffer)
      THEN [files |-> fs, dirs |-> ds \cup {cfg.diffFolder}, result |-> "ImageSizeError"]
      ELSE IF Exceeds(results, allowed)
      THEN [files |-> writeFileSync(fs, diffImagePath, results.pngDiffBuffer),
            dirs |-> ds \cup {cfg.diffFolder}, result |-> "VisualMismatch"]
      ELSE [files |-> IF existsSync(fs, diffImagePath)
                      THEN unlinkSync(fs, diffImagePath) ELSE fs,
            dirs |-> ds \cup {cfg.diffFolder}, result |-> "ok"]

\* _assertImagesSimilar
AssertImagesSimilar(fs, ds, cfg, newImageBuffer, name, allowed) ==
  LET baseImagePath == BaseImagePath(cfg, name)
      diffImagePath == BaseDiffPath(cfg, name)
      results == CompareImages(fs[baseImagePath], newImageBuffer)
  IN  IF ~existsSync(fs, baseImagePath)
      THEN [files |-> fs, dirs |-> ds, result |-> "BaselineMissing"]
      ELSE IF ~SizesMatch(fs[baseImagePath], newImageBuffer)
      THEN [files |-> fs, dirs |-> ds \cup {cfg.diffFolder}, result |-> "ImageSizeError"]
      ELSE IF Exceeds(results, allowed)
      THEN [files |-> writeFileSync(fs, diffImagePath, results.pngDiffBuffer),
            dirs |-> ds \cup {cfg.diffFolder}, result |-> "VisualMismatch"]
      ELSE [files |-> fs, dirs |-> ds \cup {cfg.diffFolder}, result |-> "ok"]

\* ------------------------------------------------------------- the inputs

Names == {"", "a"}

\* the options object of a call; allowedMismatchedPixelsPercent is <<>> when absent
\* (the page has no img: the selector matches no element)
GivenOptions ==
  [allowedMismatchedPixelsPercent : {<<>>, <<0>>, <<2>>},
   preserveTexts : {<<>>, <<"body">>, <<"div", "span">>},
   hideElements : {<<>>, <<"p">>}]
  \cup [allowedMismatchedPixelsPercent : {<<>>},
        preserveTexts : {<<"img">>},
        hideElements : {<<>>, <<"p">>}]

\* mutant of Nullish: v || d, which also replaces 0
Nullish_Or(v, d) == IF v = <<>> \/ v[1] = 0 THEN d ELSE v[1]

\* v ?? d
Nullish(v, d) == IF v = <<>> THEN d ELSE v[1]

\* mutant of IsFalsy: the name is not looked at
IsFalsy_Never(name) == FALSE

\* !screenshotName
IsFalsy(name) == name = ""

NoOptions == [allowedMismatchedPixelsPercent |-> 0, preserveTexts |-> <<>>, hideElements |-> <<>>]
NoGiven == [allowedMismatchedPixelsPercent |-> <<>>, preserveTexts |-> <<>>, hideElements |-> <<>>]
NoPre == [files |-> <<>>, dirs |-> {}, text |-> <<>>, classes |-> {}, styles |-> 0]
NoPrev == [name |-> "", shot |-> NoImage]

\* what a call that has not started holds
NoCall ==
  [pc |-> "idle", update |-> FALSE, screenshotName |-> "", given |-> NoGiven,
   options |-> NoOptions, screenshotBuffer |-> NoImage, originalTexts |-> <<>>,
   baseBaseIgnoredTexts |-> <<>>, result |-> "", steps |-> <<>>, warned |-> FALSE,
   pre |-> NoPre, touched |-> {}, shownTexts |-> <<>>]

\* -------------------------------------------------------------- the state

VARIABLES
  parsedConfig,     \* imageFolder, diffFolder
  dirs,             \* the folders that exist
  files,            \* path -> content, for the files that exist
  text,             \* text node -> textContent
  classes,          \* the elements carrying e2e-visual-testing-hidden
  styles,           \* the style elements e2e-visual-testing-global-styles in the head
  viewport,         \* <<width, height>> of the window
  pc,               \* the step the call is at; "idle" between calls
  update,           \* process.env.UPDATE_VISUALS, as read by the call
  screenshotName,
  given,            \* the options as passed
  options,          \* the options after the defaults
  screenshotBuffer,
  originalTexts,
  baseBaseIgnoredTexts,
  result,           \* how the call ended, "" while it runs
  steps,            \* the driver interactions of the call so far
  warned,           \* console.warn was called by _setIgnoredTexts
  touched,          \* the paths the call has written or deleted so far
  shownTexts,       \* the texts of the page when the call took its screenshot
  calls,            \* calls made so far
  pre,              \* files, folders and page when the call started
  prev,             \* name and screenshot of the call before, when it was a
                    \* successful update
  other,            \* the second call in flight, when two calls run at once
  trail             \* the page scripts run directly, with the page each one left

store == <<parsedConfig, dirs, files>>
page == <<text, classes, styles, viewport>>
locals == <<update, screenshotName, given, options, screenshotBuffer, originalTexts,
            baseBaseIgnoredTexts, result, steps, warned, touched, shownTexts, pre>>
aside == <<other, trail>>
vars == <<store, page, pc, locals, calls, prev, aside>>

Init ==
  /\ parsedConfig \in [imageFolder : {"base"}, diffFolder : {"base", "diff"}]
  /\ dirs = {"output"}
  /\ files = <<>>
  /\ text \in PageLoads
  /\ classes = {}
  /\ styles = 0
  /\ viewport \in Viewports
  /\ pc = "idle"
  /\ update = FALSE
  /\ screenshotName = ""
  /\ given = NoGiven
  /\ options = NoOptions
  /\ screenshotBuffer = NoImage
  /\ originalTexts = <<>>
  /\ baseBaseIgnoredTexts = <<>>
  /\ result = ""
  /\ steps = <<>>
  /\ warned = FALSE
  /\ touched = {}
  /\ shownTexts = <<>>
  /\ calls = 0
  /\ pre = NoPre
  /\ prev = NoPrev
  /\ other = NoCall
  /\ trail = <<>>

\* the awaited steps of _captureScreenAltered, in order
CaptureSteps ==
  <<"load", "substitute", "hide", "screenshot", "getOriginal", "restore", "unhide">>

\* mutant of Applies: every step runs, whatever the options
Applies_Always(s, o) == TRUE

Applies(s, o) ==
  CASE s \in {"load", "substitute", "getOriginal", "restore"} -> o.preserveTexts # <<>>
    [] s \in {"hide", "unhide"} -> o.hideElements # <<>>
    [] OTHER -> TRUE

\* the step after the k-th capture step; after the capture _storeBaseImage
\* or _assertImagesSimilar goes on
NextStep(k, o, upd) ==
  LET later == {i \in (k + 1)..Len(CaptureSteps) : Applies(CaptureSteps[i], o)}
  IN  IF later = {} THEN (IF upd THEN "store" ELSE "assert")
      ELSE CaptureSteps[CHOOSE i \in later : \A j \in later : i <= j]

\* ------------------------------------------------------------ the actions

\* dontSeeVisualChanges up to its first await
dontSeeVisualChanges(name, g, upd) ==
  /\ pc = "idle"
  /\ calls < MaxCalls
  /\ calls' = calls + 1
  /\ screenshotName' = name
  /\ given' = g
  /\ update' = upd
  /\ options' = [allowedMismatchedPixelsPercent |->
                   Nullish(g.allowedMismatchedPixelsPercent, DefaultAllowed),
                 preserveTexts |-> g.preserveTexts,
                 hideElements |-> g.hideElements]
  /\ pre' = [files |-> files, dirs |-> dirs, text |-> text,
             classes |-> classes, styles |-> styles]
  /\ IF IsFalsy(name)
     THEN pc' = "done" /\ result' = "InvalidArgument"
     ELSE pc' = NextStep(0, options', upd) /\ result' = ""
  /\ UNCHANGED <<store, page, screenshotBuffer, originalTexts, baseBaseIgnoredTexts,
                 steps, warned, touched, prev, aside, shownTexts>>

\* const baseBaseIgnoredTexts = await this._getBaseIgnoredTexts(screenshotName)
Load ==
  /\ pc = "load"
  /\ LET p == BaseIgnoredTextsPath(parsedConfig, screenshotName)
         r == GetBaseIgnoredTexts(files, p)
     IN  /\ files' = r.files
         /\ baseBaseIgnoredTexts' = r.texts
         /\ touched' = touched \cup (IF r.files # files THEN {p} ELSE {})
  /\ pc' = NextStep(1, options, update)
  /\ UNCHANGED <<parsedConfig, dirs, page, update, screenshotName, given, options,
                 screenshotBuffer, originalTexts, result, steps, warned, pre, calls,
                 prev, aside, shownTexts>>

\* await this._setIgnoredTexts(options, baseBaseIgnoredTexts)
Substitute ==
  /\ pc = "substitute"
  /\ text' = SetIgnoredTexts(text, options.preserveTexts, baseBaseIgnoredTexts)
  /\ warned' = (warned \/ ~CountsAgree(options.preserveTexts, baseBaseIgnoredTexts))
  /\ steps' = Append(steps, "setIgnoredTexts")
  /\ pc' = NextStep(2, options, update)
  /\ UNCHANGED <<store, classes, styles, viewport, update, screenshotName, given,
                 options, screenshotBuffer, originalTexts, baseBaseIgnoredTexts, result,
                 touched, pre, calls, prev, aside, shownTexts>>

\* _setHiddenElements(options, true)
Hide ==
  /\ pc = "hide"
  /\ styles' = HideStyles(styles)
  /\ classes' = HideClasses(classes, options.hideElements)
  /\ steps' = Append(steps, "hide")
  /\ pc' = NextStep(3, options, update)
  /\ UNCHANGED <<store, text, viewport, update, screenshotName, given, options,
                 screenshotBuffer, originalTexts, baseBaseIgnoredTexts, result, warned,
                 touched, pre, calls, prev, aside, shownTexts>>

\* _captureScreen
Screenshot ==
  /\ pc = "screenshot"
  /\ screenshotBuffer' = Render(text, classes, styles, viewport)
  /\ files' = writeFileSync(files, TempPath, TempFile)
  /\ touched' = touched \cup {TempPath}
  /\ shownTexts' = text
  /\ steps' = Append(steps, "saveScreenshot")
  /\ pc' = NextStep(4, options, update)
  /\ UNCHANGED <<parsedConfig, dirs, page, update, screenshotName, given, options,
                 originalTexts, baseBaseIgnoredTexts, result, warned, pre, calls, prev,
                 aside>>

\* mutant of GetOriginal: the texts are those saved when the call started
GetOriginal_SavedBefore ==
  /\ pc = "getOriginal"
  /\ originalTexts' = GetIgnoredTexts(pre.text, options.preserveTexts)
  /\ steps' = Append(steps, "getIgnoredTexts")
  /\ pc' = NextStep(5, options, update)
  /\ UNCHANGED <<store, page, update, screenshotName, given, options, screenshotBuffer,
                 baseBaseIgnoredTexts, result, warned, touched, pre, calls, prev,
                 aside, shownTexts>>

\* originalTexts = await this._getIgnoredTexts(options)
GetOriginal ==
  /\ pc = "getOriginal"
  /\ originalTexts' = GetIgnoredTexts(text, options.preserveTexts)
  /\ steps' = Append(steps, "getIgnoredTexts")
  /\ pc' = NextStep(5, options, update)
  /\ UNCHANGED <<store, page, update, screenshotName, given, options, screenshotBuffer,
                 baseBaseIgnoredTexts, result, warned, touched, pre, calls, prev,
                 aside, shownTexts>>

\* await this._setIgnoredTexts(options, originalTexts)
Restore ==
  /\ pc = "restore"
  /\ text' = SetIgnoredTexts(text, options.preserveTexts, originalTexts)
  /\ warned' = (warned \/ ~CountsAgree(options.preserveTexts, originalTexts))
  /\ steps' = Append(steps, "setIgnoredTexts")
  /\ pc' = NextStep(6, options, update)
  /\ UNCHANGED <<store, classes, styles, viewport, update, screenshotName, given,
                 options, screenshotBuffer, originalTexts, baseBaseIgnoredTexts, result,
                 touched, pre, calls, prev, aside, shownTexts>>

\* _setHiddenElements(options, false)
Unhide ==
  /\ pc = "unhide"
  /\ styles' = UnhideStyles(styles)
  /\ classes' = UnhideClasses(classes)
  /\ steps' = Append(steps, "unhide")
  /\ pc' = NextStep(7, options, update)
  /\ UNCHANGED <<store, text, viewport, update, screenshotName, given, options,
                 screenshotBuffer, originalTexts, baseBaseIgnoredTexts, result, warned,
                 touched, pre, calls, prev, aside, shownTexts>>

\* _storeBaseImage after the capture, and _updateIgnoredTexts up to its await
Store ==
  /\ pc = "store"
  /\ LET r == StoreBaseImage(files, dirs, parsedConfig, screenshotBuffer, screenshotName)
         p == BaseIgnoredTextsPath(parsedConfig, screenshotName)
     IN  /\ files' = r.files
         /\ dirs' = r.dirs
         /\ touched' = touched \cup {BaseImagePath(parsedConfig, screenshotName)}
                         \cup (IF existsSync(files, p) THEN {p} ELSE {})
  /\ IF options.preserveTexts # <<>>
     THEN pc' = "snapshot" /\ result' = ""
     ELSE pc' = "done" /\ result' = "ok"
  /\ UNCHANGED <<parsedConfig, page, update, screenshotName, given, options,
                 screenshotBuffer, originalTexts, baseBaseIgnoredTexts, steps, warned,
                 pre, calls, prev, aside, shownTexts>>

\* _updateIgnoredTexts: the texts of the page are read and written
Snapshot ==
  /\ pc = "snapshot"
  /\ files' = writeFileSync(files, BaseIgnoredTextsPath(parsedConfig, screenshotName),
                            JsonFile(GetIgnoredTexts(text, options.preserveTexts)))
  /\ touched' = touched \cup {BaseIgnoredTextsPath(parsedConfig, screenshotName)}
  /\ steps' = Append(steps, "getIgnoredTexts")
  /\ pc' = "done"
  /\ result' = "ok"
  /\ UNCHANGED <<parsedConfig, dirs, page, update, screenshotName, given, options,
                 screenshotBuffer, originalTexts, baseBaseIgnoredTexts, warned, pre,
                 calls, prev, aside, shownTexts>>

\* _assertImagesSimilar
Compare ==
  /\ pc = "assert"
  /\ LET r == AssertImagesSimilar(files, dirs, parsedConfig, screenshotBuffer,
                                  screenshotName, options.allowedMismatchedPixelsPercent)
     IN  /\ files' = r.files
         /\ dirs' = r.dirs
         /\ result' = r.result
         /\ touched' = touched \cup
                         (IF r.result = "VisualMismatch"
                          THEN {BaseDiffPath(parsedConfig, screenshotName)} ELSE {})
  /\ pc' = "done"
  /\ UNCHANGED <<parsedConfig, page, update, screenshotName, given, options,
                 screenshotBuffer, originalTexts, baseBaseIgnoredTexts, steps, warned,
                 pre, calls, prev, aside, shownTexts>>

\* the steps that await the driver
DriverSteps == {"substitute", "hide", "screenshot", "getOriginal", "restore", "unhide",
                "snapshot"}

\* executeScript or saveScreenshot rejects: nothing catches it, the call ends
DriverError ==
  /\ pc \in DriverSteps
  /\ pc' = "done"
  /\ result' = "DriverError"
  /\ UNCHANGED <<store, page, update, screenshotName, given, options,
                 screenshotBuffer, originalTexts, baseBaseIgnoredTexts, steps, warned,
                 touched, pre, calls, prev, aside, shownTexts>>

\* the caller has the outcome; nothing of the call is kept
Return ==
  /\ pc = "done"
  /\ pc' = "idle"
  /\ prev' = IF update /\ result = "ok"
             THEN [name |-> screenshotName, shot |-> screenshotBuffer]
             ELSE NoPrev
  /\ update' = FALSE
  /\ screenshotName' = ""
  /\ given' = NoGiven
  /\ options' = NoOptions
  /\ screenshotBuffer' = NoImage
  /\ originalTexts' = <<>>
  /\ baseBaseIgnoredTexts' = <<>>
  /\ result' = ""
  /\ steps' = <<>>
  /\ warned' = FALSE
  /\ touched' = {}
  /\ shownTexts' = <<>>
  /\ pre' = NoPre
  /\ UNCHANGED <<store, page, calls, aside>>

\* I.amOnPage('/'): a fresh document with the texts of the moment
AmOnPage(load) ==
  /\ pc = "idle"
  /\ text' = load
  /\ classes' = {}
  /\ styles' = 0
  /\ UNCHANGED <<store, viewport, pc, locals, calls, prev, aside>>

\* a stored snapshot file is damaged outside the helper (a bad merge, a
\* truncated write)
CorruptSnapshot ==
  /\ pc = "idle"
  /\ \E p \in DOMAIN files :
       /\ IsJson(files[p])
       /\ files' = writeFileSync(files, p, CorruptFile)
  /\ UNCHANGED <<parsedConfig, dirs, page, pc, locals, calls, prev, aside>>

Next ==
  \/ \E name \in Names, g \in GivenOptions, upd \in BOOLEAN :
       dontSeeVisualChanges(name, g, upd)
  \/ Load
  \/ Substitute
  \/ Hide
  \/ Screenshot
  \/ GetOriginal
  \/ Restore
  \/ Unhide
  \/ Store
  \/ Snapshot
  \/ Compare
  \/ DriverError
  \/ Return
  \/ \E load \in PageLoads : AmOnPage(load)
  \/ CorruptSnapshot

Spec == Init /\ [][Next]_vars

\* ----------------------------------------------------- two calls at once

\* two calls started without awaiting the first, as Promise.all makes them
ConcurrentNames == {"a", "b"}
ConcurrentOptions ==
  {NoGiven,
   [allowedMismatchedPixelsPercent |-> <<>>, preserveTexts |-> <<"body">>,
    hideElements |-> <<"p">>]}

\* the call in flight, as the record `other` keeps the second one
ThisCall ==
  [pc |-> pc, update |-> update, screenshotName |-> screenshotName, given |-> given,
   options |-> options, screenshotBuffer |-> screenshotBuffer,
   originalTexts |-> originalTexts, baseBaseIgnoredTexts |-> baseBaseIgnoredTexts,
   result |-> result, steps |-> steps, warned |-> warned, pre |-> pre,
   touched |-> touched, shownTexts |-> shownTexts]

\* the event loop resumes the other call at the await it is suspended at
Switch ==
  /\ pc # "idle" \/ other.pc # "idle"
  /\ other' = ThisCall
  /\ pc' = other.pc
  /\ update' = other.update
  /\ screenshotName' = other.screenshotName
  /\ given' = other.given
  /\ options' = other.options
  /\ screenshotBuffer' = other.screenshotBuffer
  /\ originalTexts' = other.originalTexts
  /\ baseBaseIgnoredTexts' = other.baseBaseIgnoredTexts
  /\ result' = other.result
  /\ steps' = other.steps
  /\ warned' = other.warned
  /\ pre' = other.pre
  /\ touched' = other.touched
  /\ shownTexts' = other.shownTexts
  /\ UNCHANGED <<store, page, calls, prev, trail>>

\* a call with a name the other call does not have
StartConcurrent(name, g, upd) ==
  /\ name # other.screenshotName
  /\ dontSeeVisualChanges(name, g, upd)

NextConcurrent ==
  \/ \E name \in ConcurrentNames, g \in ConcurrentOptions, upd \in BOOLEAN :
       StartConcurrent(name, g, upd)
  \/ Switch
  \/ Load
  \/ Substitute
  \/ Hide
  \/ Screenshot
  \/ GetOriginal
  \/ Restore
  \/ Unhide
  \/ Store
  \/ Snapshot
  \/ Compare

SpecConcurrent == Init /\ [][NextConcurrent]_vars

\* ------------------------------------------- the page scripts on their own

\* the selector lists a script is run with
SelectorSets == {<<"p">>, <<"span">>, <<"div", "p">>, <<"body">>, <<"img">>}

\* _setHiddenElements(options, hidden) run on the page as it is
SetHiddenElements(selectors, hidden) ==
  /\ pc = "idle"
  /\ Len(trail) < MaxScripts
  /\ IF hidden
     THEN /\ styles' = HideStyles(styles)
          /\ classes' = HideClasses(classes, selectors)
     ELSE /\ styles' = UnhideStyles(styles)
          /\ classes' = UnhideClasses(classes)
  /\ trail' = Append(trail, [script |-> "setHiddenElements", selectors |-> selectors,
                             hidden |-> hidden, classes |-> classes',
                             styles |-> styles', text |-> text])
  /\ UNCHANGED <<store, text, viewport, pc, locals, calls, prev, other>>

NextScripts ==
  \E selectors \in SelectorSets, hidden \in BOOLEAN : SetHiddenElements(selectors, hidden)

SpecScripts == Init /\ [][NextScripts]_vars

\* -------------------------------------------- the text scripts on their own

\* the selector lists and text lists the text scripts are run with
TextSelectorSets == {<<"body">>, <<"div", "span">>, <<"p">>}
TextLists == {<<>>, <<"C">>, <<"C", "B", "C">>, <<"B", "B", "B">>}

\* _setIgnoredTexts(options, ignoredTexts) run on the page as it is
RunSetIgnoredTexts(selectors, ignoredTexts) ==
  /\ pc = "idle"
  /\ Len(trail) < MaxScripts
  /\ text' = SetIgnoredTexts(text, selectors, ignoredTexts)
  /\ trail' = Append(trail, [script |-> "setIgnoredTexts", selectors |-> selectors,
                             ignoredTexts |-> ignoredTexts, before |-> text,
                             text |-> text'])
  /\ UNCHANGED <<store, classes, styles, viewport, pc, locals, calls, prev, other>>

\* _getIgnoredTexts(options) run on the page as it is
RunGetIgnoredTexts(selectors) ==
  /\ pc = "idle"
  /\ Len(trail) < MaxScripts
  /\ trail' = Append(trail, [script |-> "getIgnoredTexts", selectors |-> selectors,
                             ignoredTexts |-> GetIgnoredTexts(text, selectors),
                             before |-> text, text |-> text])
  /\ UNCHANGED <<store, page, pc, locals, calls, prev, other>>

\* _setIgnoredTexts with what _getIgnoredTexts has just returned
RunSetReturned(selectors) ==
  /\ trail # <<>>
  /\ trail[Len(trail)].script = "getIgnoredTexts"
  /\ RunSetIgnoredTexts(selectors, trail[Len(trail)].ignoredTexts)

NextTexts ==
  \/ \E selectors \in TextSelectorSets, ignoredTexts \in TextLists :
       RunSetIgnoredTexts(selectors, ignoredTexts)
  \/ \E selectors \in TextSelectorSets : RunGetIgnoredTexts(selectors)
  \/ \E selectors \in TextSelectorSets : RunSetReturned(selectors)

SpecTexts == Init /\ [][NextTexts]_vars

\* ---------------------------------------------------------- the claims

\* the paths of the running call
CallBase == BaseImagePath(parsedConfig, screenshotName)
CallSnap == BaseIgnoredTextsPath(parsedConfig, screenshotName)
CallDiff == BaseDiffPath(parsedConfig, screenshotName)

\* the file at p is as it was when the call started
SameAsBefore(p) ==
  /\ (p \in DOMAIN files) = (p \in DOMAIN pre.files)
  /\ p \in DOMAIN files => files[p] = pre.files[p]

\* a call with a screenshot name has returned, in compare or in update mode
CompareDone == pc = "done" /\ ~update /\ screenshotName # ""
UpdateDone == pc = "done" /\ update /\ screenshotName # ""

\* the tolerance the caller asked for, in percent
AskedPercent ==
  IF given.allowedMismatchedPixelsPercent = <<>> THEN 1
  ELSE given.allowedMismatchedPixelsPercent[1]

\* the pixels of the screenshot that differ from the base image the call found
Mismatched ==
  LET b == pre.files[CallBase].data
      c == screenshotBuffer.data
  IN  Cardinality({i \in 1..Len(b) : b[i] - c[i] > 1 \/ c[i] - b[i] > 1})

\* the call compared its screenshot with a base image of the same size
Compared ==
  /\ CompareDone
  /\ result \in {"ok", "VisualMismatch"}
  /\ CallBase \in DOMAIN pre.files

\* C1: a compare-mode call that follows a successful update-mode call of the
\* same name and gets the same screenshot bytes from the driver passes, and
\* leaves the diff artifact as it was.
C1_RoundTrip ==
  (/\ CompareDone
   /\ prev # NoPrev
   /\ prev.name = screenshotName
   /\ prev.shot = screenshotBuffer
   /\ result # "DriverError")
  => (result = "ok" /\ SameAsBefore(CallDiff))

\* a round trip with tolerance 0 and texts preserved
C1_Witness ==
  /\ CompareDone
  /\ prev.name = screenshotName
  /\ prev.shot = screenshotBuffer
  /\ given.allowedMismatchedPixelsPercent = <<0>>
  /\ given.preserveTexts # <<>>
  /\ result = "ok"

\* C2: a comparison fails iff mismatched / (width * height) is strictly above
\* the asked percent / 100, where the percent is 1 only when the option is absent.
C2_FailsIffAboveTolerance ==
  Compared =>
    LET img == pre.files[CallBase]
    IN  (result = "VisualMismatch")
          <=> (Mismatched * 100 > AskedPercent * (img.width * img.height))

\* one mismatched pixel in a hundred fails under an explicit tolerance of 0
C2_Witness ==
  /\ Compared
  /\ given.allowedMismatchedPixelsPercent = <<0>>
  /\ Mismatched = 1
  /\ result = "VisualMismatch"

\* the ratio equal to the tolerance passes
C2_WitnessEqual ==
  /\ Compared
  /\ Mismatched > 0
  /\ Mismatched * 100 =
       AskedPercent * (pre.files[CallBase].width * pre.files[CallBase].height)
  /\ result = "ok"

\* C3: in compare mode, with a stored snapshot as long as the list of matched
\* text nodes, the i-th matched text node holds the i-th stored string when
\* the screenshot is taken.
C3_BaselineTextAtScreenshot ==
  (/\ pc = "screenshot"
   /\ ~update
   /\ options.preserveTexts # <<>>
   /\ CallSnap \in DOMAIN files
   /\ IsJson(files[CallSnap])
   /\ Len(files[CallSnap].json) = Len(MatchedTextNodes(options.preserveTexts)))
  => \A i \in 1..Len(files[CallSnap].json) :
       text[MatchedTextNodes(options.preserveTexts)[i]] = files[CallSnap].json[i]

\* C4: when a call with preserveTexts returns (pass or mismatch), every
\* matched text node holds the text it held when the call started.
C4_TextRestored ==
  (/\ pc = "done"
   /\ screenshotName # ""
   /\ options.preserveTexts # <<>>
   /\ result \in {"ok", "VisualMismatch"})
  => \A t \in Range(MatchedTextNodes(options.preserveTexts)) : text[t] = pre.text[t]

\* C5: when a driver error ends a call after its normalisation began, no
\* element carries the marker class and no marker style element is left.
C5_RestoredOnError ==
  (pc = "done" /\ result = "DriverError" /\ steps # <<>>)
  => (classes = {} /\ styles = 0)

\* C6: compare mode without a base image fails with BaselineMissing and creates
\* neither the base image nor the diff artifact nor a folder.
C6_BaselineMissing ==
  (CompareDone /\ result # "DriverError" /\ CallBase \notin DOMAIN pre.files)
  => /\ result = "BaselineMissing"
     /\ CallBase \notin DOMAIN files
     /\ SameAsBefore(CallDiff)
     /\ dirs = pre.dirs

\* the texts were to be preserved, the capture ran, and the base image is missing
C6_Witness ==
  /\ CompareDone
  /\ result = "BaselineMissing"
  /\ Len(steps) > 1
  /\ parsedConfig.diffFolder \notin dirs

\* C7: a call without a screenshot name fails with InvalidArgument, in either
\* mode, before any driver call and any change of a file or folder.
C7_InvalidArgument ==
  /\ (pc # "idle" /\ screenshotName = "")
       => /\ pc = "done"
          /\ result = "InvalidArgument"
          /\ steps = <<>>
          /\ files = pre.files
          /\ dirs = pre.dirs
          /\ screenshotBuffer = NoImage
  /\ result = "InvalidArgument" => screenshotName = ""

\* an update-mode call without a name, with both normalisations asked for
C7_Witness ==
  /\ pc = "done"
  /\ screenshotName = ""
  /\ update
  /\ given.preserveTexts # <<>>
  /\ given.hideElements # <<>>
  /\ result = "InvalidArgument"

\* C8: a compare-mode call writes the diff artifact iff its comparison exceeds
\* the tolerance, and has written it when the VisualMismatch failure is raised.
C8_DiffArtifact ==
  (~update /\ screenshotName # "" /\ pc # "idle") =>
    /\ result = "VisualMismatch"
         => /\ CallDiff \in DOMAIN files
            /\ files[CallDiff].width = pre.files[CallBase].width
            /\ files[CallDiff].height = pre.files[CallBase].height
            /\ \A i \in 1..Len(files[CallDiff].data) :
                 files[CallDiff].data[i] \in {9, 10}
            /\ Cardinality({i \in 1..Len(files[CallDiff].data) :
                              files[CallDiff].data[i] = 10}) = Mismatched
            /\ Mismatched * 100 >
                 AskedPercent * (pre.files[CallBase].width * pre.files[CallBase].height)
    /\ result # "VisualMismatch" => SameAsBefore(CallDiff)

\* a failing comparison overwrites the diff artifact of an earlier failure
C8_Witness ==
  /\ CompareDone
  /\ result = "VisualMismatch"
  /\ CallDiff \in DOMAIN pre.files
  /\ CallDiff # CallBase
  /\ files[CallDiff] # pre.files[CallDiff]

\* C9: a compare-mode call never creates, overwrites or deletes the base image.
C9_BaselineUntouched ==
  (~update /\ screenshotName # "" /\ pc # "idle") => SameAsBefore(CallBase)

\* C10: an update-mode call that no driver error ends succeeds, has made the
\* base folder, leaves its screenshot as the base image, and changes no other
\* file than the snapshot and the temporary screenshot.
C10_UpdateStores ==
  (UpdateDone /\ result # "DriverError")
  => /\ result = "ok"
     /\ parsedConfig.imageFolder \in dirs
     /\ CallBase \in DOMAIN files
     /\ files[CallBase] = screenshotBuffer
     /\ screenshotBuffer # NoImage
     /\ \A p \in (DOMAIN files \cup DOMAIN pre.files) \ {CallBase, CallSnap, TempPath} :
          SameAsBefore(p)

\* an update over a base image that shows something else, next to an earlier diff
C10_Witness ==
  /\ UpdateDone
  /\ result = "ok"
  /\ CallBase \in DOMAIN pre.files
  /\ pre.files[CallBase] # screenshotBuffer
  /\ CallDiff # CallBase
  /\ CallDiff \in DOMAIN files

\* the marker classes and style elements before and after the i-th script
PageBefore(i) ==
  IF i = 1 THEN [classes |-> {}, styles |-> 0]
  ELSE [classes |-> trail[i - 1].classes, styles |-> trail[i - 1].styles]
PageAfter(i) == [classes |-> trail[i].classes, styles |-> trail[i].styles]
CleanPage == [classes |-> {}, styles |-> 0]

\* C11: on a page without marker style and marker class, hiding and then
\* unhiding with the same selectors leaves the marker classes and the style
\* elements of the head as they were.
C11_HideUnhideRoundTrip ==
  \A i \in 1..(Len(trail) - 1) :
    (/\ trail[i].hidden
     /\ ~trail[i + 1].hidden
     /\ trail[i].selectors = trail[i + 1].selectors
     /\ PageBefore(i) = CleanPage)
    => PageAfter(i + 1) = PageBefore(i)

\* two elements were hidden under one style element and are shown again
C11_Witness ==
  /\ Len(trail) = 2
  /\ trail[1].hidden
  /\ trail[1].selectors = <<"div", "p">>
  /\ trail[1].classes = {"div", "p"}
  /\ trail[1].styles = 1
  /\ ~trail[2].hidden
  /\ trail[2].selectors = <<"div", "p">>
  /\ classes = {}
  /\ styles = 0

\* the substitution of the running call found another number of text nodes
\* than stored texts
CountMismatch ==
  /\ screenshotName # ""
  /\ options.preserveTexts # <<>>
  /\ Len(steps) >= 1
  /\ ~CountsAgree(options.preserveTexts, baseBaseIgnoredTexts)

\* C12: when the matched text nodes and the stored texts differ in number, the
\* substitution warns and changes no text, and the call goes on to its
\* screenshot and to the comparison or the write of the base image.
C12_CountMismatchFailSoft ==
  CountMismatch =>
    /\ warned
    /\ text = pre.text
    /\ steps = <<"setIgnoredTexts">> => pc \in {"hide", "screenshot", "done"}
    /\ (pc = "done" /\ result # "DriverError")
         => /\ "saveScreenshot" \in Range(steps)
            /\ \E cls \in SUBSET Elements :
                 screenshotBuffer = Render(pre.text, cls, 1, viewport)
            /\ update => (result = "ok" /\ files[CallBase] = screenshotBuffer)
            /\ ~update => result \in {"ok", "VisualMismatch", "BaselineMissing"}

\* a stored snapshot of three texts meets a selector that matches no text
\* node, and the comparison still runs and fails on the changed text
C12_Witness ==
  /\ CompareDone
  /\ CountMismatch
  /\ Len(baseBaseIgnoredTexts) = 3
  /\ warned
  /\ result = "VisualMismatch"

\* the first update with preserveTexts finds no snapshot and stores the image
C12_WitnessUpdate ==
  /\ UpdateDone
  /\ CountMismatch
  /\ baseBaseIgnoredTexts = <<>>
  /\ result = "ok"

\* C13: _getBaseIgnoredTexts ends no call: without a snapshot file it returns
\* the empty list; an unparseable file is deleted, the empty list returned and
\* the next load finds no file; a JSON array is returned and its file left as
\* it is.
C13_LoadNeverFails ==
  pc = "substitute" =>
    /\ result = ""
    /\ \A p \in (DOMAIN files \cup DOMAIN pre.files) \ {CallSnap} : SameAsBefore(p)
    /\ CallSnap \notin DOMAIN pre.files
         => (baseBaseIgnoredTexts = <<>> /\ CallSnap \notin DOMAIN files)
    /\ (CallSnap \in DOMAIN pre.files /\ ~IsJson(pre.files[CallSnap]))
         => /\ baseBaseIgnoredTexts = <<>>
            /\ CallSnap \notin DOMAIN files
            /\ GetBaseIgnoredTexts(files, CallSnap) = [texts |-> <<>>, files |-> files]
    /\ (CallSnap \in DOMAIN pre.files /\ IsJson(pre.files[CallSnap]))
         => /\ baseBaseIgnoredTexts = pre.files[CallSnap].json
            /\ SameAsBefore(CallSnap)

\* a damaged snapshot file has just been loaded
C13_Witness ==
  /\ pc = "substitute"
  /\ CallSnap \in DOMAIN pre.files
  /\ pre.files[CallSnap] = CorruptFile
  /\ baseBaseIgnoredTexts = <<>>
  /\ CallSnap \notin DOMAIN files

\* C14 as stated: a file that exists is deleted by no step, unless it is a
\* snapshot file that cannot be parsed.
C14_NeverDeleted ==
  [][\A p \in DOMAIN files \ DOMAIN files' :
       p = CallSnap /\ ~IsJson(files[p])]_vars

\* C14: no step deletes a base image or a diff artifact; a snapshot file is
\* deleted only by the load that cannot parse it and by the update-mode call
\* of its name, which clears it when it stores the base image.
C14_DeletedOnlySnapshot ==
  [][\A p \in DOMAIN files \ DOMAIN files' :
       /\ p = CallSnap
       /\ \/ (pc = "load" /\ ~IsJson(files[p]))
          \/ (pc = "store" /\ update)]_vars

\* an update without preserveTexts has removed the snapshot an earlier update
\* of the name wrote, and has written none
C14_Witness ==
  /\ UpdateDone
  /\ result = "ok"
  /\ options.preserveTexts = <<>>
  /\ CallSnap \in DOMAIN pre.files
  /\ IsJson(pre.files[CallSnap])
  /\ CallSnap \notin DOMAIN files

\* the texts _updateIgnoredTexts reads from the page of a call that has ended
Captured == GetIgnoredTexts(text, options.preserveTexts)

\* C15 as stated: after a successful update the snapshot file exists iff at
\* least one text was captured, and then holds the captured texts.
C15_SnapshotIffTexts ==
  (UpdateDone /\ result = "ok")
  => /\ (CallSnap \in DOMAIN files) <=> (Captured # <<>>)
     /\ CallSnap \in DOMAIN files => files[CallSnap] = JsonFile(Captured)

\* C15: after a successful update the snapshot file exists iff preserveTexts
\* is not empty, and then holds the captured texts, which may be none.
C15_SnapshotIffPreserveTexts ==
  (UpdateDone /\ result = "ok")
  => /\ (CallSnap \in DOMAIN files) <=> (options.preserveTexts # <<>>)
     /\ CallSnap \in DOMAIN files => files[CallSnap] = JsonFile(Captured)

\* the selectors match no text node and the snapshot file holds the empty list
C15_Witness ==
  /\ UpdateDone
  /\ result = "ok"
  /\ options.preserveTexts # <<>>
  /\ Captured = <<>>
  /\ CallSnap \in DOMAIN files
  /\ files[CallSnap] = JsonFile(<<>>)

\* the texts of the snapshot file the call found, [] without a parseable file
StoredTexts ==
  IF CallSnap \in DOMAIN pre.files /\ IsJson(pre.files[CallSnap])
  THEN pre.files[CallSnap].json
  ELSE <<>>

\* C16 as stated: at the screenshot of an update-mode call no stored text has
\* been put into the page.
C16_UpdateLeavesText ==
  (update /\ pc = "screenshot") => text = pre.text

\* C16: an update-mode call loads the stored snapshot as a compare-mode call
\* does; at its screenshot the page holds its own texts when no parseable
\* snapshot of as many texts as matched text nodes is stored, and stored texts
\* in every matched text node otherwise.
C16_UpdateSubstitutesStored ==
  (update /\ pc = "screenshot") =>
    LET nodes == MatchedTextNodes(options.preserveTexts)
    IN  /\ options.preserveTexts # <<>> => baseBaseIgnoredTexts = StoredTexts
        /\ (options.preserveTexts = <<>> \/ Len(StoredTexts) # Len(nodes))
             => text = pre.text
        /\ (options.preserveTexts # <<>> /\ Len(StoredTexts) = Len(nodes))
             => \A t \in TextNodes :
                  IF t \in Range(nodes)
                  THEN \E i \in 1..Len(nodes) : nodes[i] = t /\ text[t] = StoredTexts[i]
                  ELSE text[t] = pre.text[t]

\* the second update of a name is about to photograph the texts of the first
C16_Witness ==
  /\ update
  /\ pc = "screenshot"
  /\ text # pre.text
  /\ GetIgnoredTexts(text, options.preserveTexts) = StoredTexts

\* C17: while two calls with different names are in flight, each has written
\* or deleted only paths that carry its own name, and no path the other has
\* written or deleted, the temporary screenshot file included.
C17_DisjointPaths ==
  (pc # "idle" /\ other.pc # "idle" /\ screenshotName # other.screenshotName)
  => /\ touched \cap other.touched = {}
     /\ \A p \in touched : p[2] = screenshotName
     /\ \A p \in other.touched : p[2] = other.screenshotName

\* the driver interactions of a whole call, in the order of the code
Expected(o, upd) ==
  (IF o.preserveTexts # <<>> THEN <<"setIgnoredTexts">> ELSE <<>>)
    \o (IF o.hideElements # <<>> THEN <<"hide">> ELSE <<>>)
    \o <<"saveScreenshot">>
    \o (IF o.preserveTexts # <<>> THEN <<"getIgnoredTexts", "setIgnoredTexts">> ELSE <<>>)
    \o (IF o.hideElements # <<>> THEN <<"unhide">> ELSE <<>>)
    \o (IF upd /\ o.preserveTexts # <<>> THEN <<"getIgnoredTexts">> ELSE <<>>)

\* _captureScreenAltered has returned the screenshot
CaptureDone ==
  \/ pc \in {"store", "snapshot", "assert"}
  \/ pc = "done" /\ result \in {"ok", "VisualMismatch", "BaselineMissing"}

\* C18: the page interactions of a call come one after the other in the order
\* substitute, hide, screenshot, restore, unhide; at the screenshot every
\* element matched by hideElements carries the marker class and the style
\* element is there; once the capture has returned, and when the call ends ok,
\* with VisualMismatch or with BaselineMissing, no element carries the marker
\* class and no marker style element is left.
C18_OrderedAndUnhidden ==
  (pc # "idle" /\ screenshotName # "") =>
    /\ steps = SubSeq(Expected(options, update), 1, Len(steps))
    /\ (pc = "screenshot" /\ options.hideElements # <<>>)
         => /\ Range(querySelectorAll(options.hideElements)) \subseteq classes
            /\ styles >= 1
    /\ (CaptureDone /\ options.hideElements # <<>>)
         => (classes = {} /\ styles = 0)

\* C19: running _setHiddenElements a second time with the same selectors and
\* the same value of hidden leaves the marker classes and the style elements
\* of the head as the first run left them.
C19_Idempotent ==
  \A i \in 1..(Len(trail) - 1) :
    (/\ trail[i].hidden = trail[i + 1].hidden
     /\ trail[i].selectors = trail[i + 1].selectors)
    => PageAfter(i + 1) = PageAfter(i)

\* C20: whatever runs of _setHiddenElements came before, a run with hidden
\* false leaves no element with the marker class and no marker style element.
C20_UnhideRestoresAll ==
  \A i \in 1..Len(trail) :
    ~trail[i].hidden => (trail[i].classes = {} /\ trail[i].styles = 0)

\* C21: _setIgnoredTexts with some texts, then _getIgnoredTexts, then
\* _setIgnoredTexts with what it returned, all with the same selectors, leaves
\* every text node with the text it had before the first of the three.
C21_TextRoundTrip ==
  \A i \in 1..(Len(trail) - 2) :
    (/\ trail[i].script = "setIgnoredTexts"
     /\ trail[i + 1].script = "getIgnoredTexts"
     /\ trail[i + 2].script = "setIgnoredTexts"
     /\ trail[i + 1].selectors = trail[i].selectors
     /\ trail[i + 2].selectors = trail[i].selectors
     /\ trail[i + 2].ignoredTexts = trail[i + 1].ignoredTexts)
    => trail[i + 2].text = trail[i].before

\* the text nodes of the page in document order
TextOrder == <<"t1", "t2", "t3">>

\* the text nodes beneath the matched elements, each once, in document order
NodesBeneath(selectors) ==
  SelectSeq(TextOrder, LAMBDA t : Ancestors[t] \cap Range(querySelectorAll(selectors)) # {})

\* C22: _getIgnoredTexts returns the texts of the text nodes beneath the
\* matched elements in document order, nested matches included, and returns
\* the same when it is run again on the unchanged page.
C22_DocumentOrder ==
  \A i \in 1..Len(trail) :
    trail[i].script = "getIgnoredTexts" =>
      /\ trail[i].ignoredTexts =
           [k \in 1..Len(NodesBeneath(trail[i].selectors)) |->
              trail[i].before[NodesBeneath(trail[i].selectors)[k]]]
      /\ (/\ i > 1
          /\ trail[i - 1].script = "getIgnoredTexts"
          /\ trail[i - 1].selectors = trail[i].selectors)
           => trail[i].ignoredTexts = trail[i - 1].ignoredTexts

\* the restoring _setIgnoredTexts of the call has run
RestoreDone ==
  \E i, j \in 1..Len(steps) :
    i < j /\ steps[i] = "saveScreenshot" /\ steps[j] = "setIgnoredTexts"

C24_DefaultsRunNoScript ==
  (pc # "idle" /\ screenshotName # "") =>
    /\ options.preserveTexts = <<>>
         => /\ \A i \in 1..Len(steps) :
                 steps[i] \notin {"setIgnoredTexts", "getIgnoredTexts"}
            /\ text = pre.text
            /\ pc # "load"
            /\ baseBaseIgnoredTexts = <<>>
            /\ ~update => (SameAsBefore(CallSnap) /\ CallSnap \notin touched)
    /\ options.hideElements = <<>>
         => /\ \A i \in 1..Len(steps) : steps[i] \notin {"hide", "unhide"}
            /\ classes = pre.classes
            /\ styles = pre.styles
    /\ (options.preserveTexts = <<>> /\ options.hideElements = <<>>)
         => steps \in {<<>>, <<"saveScreenshot">>}

\* a compare-mode call with the defaults has passed next to a damaged snapshot
\* file, which is still there
C24_Witness ==
  /\ CompareDone
  /\ given = NoGiven
  /\ steps = <<"saveScreenshot">>
  /\ result = "ok"
  /\ CallSnap \in DOMAIN files
  /\ files[CallSnap] = CorruptFile

\* ------------------------------------------------- the window is resized

\* sizes the browser window takes between calls: the configured one, one of
\* another shape with as many pixels, one with more pixels
WindowSizes == {<<10, 10>>, <<5, 20>>, <<10, 11>>}

\* the options of the calls made while the window is resized
ResizeOptions ==
  {NoGiven,
   [allowedMismatchedPixelsPercent |-> <<>>, preserveTexts |-> <<"body">>,
    hideElements |-> <<"p">>]}

\* the window gets another size between two calls
ResizeWindow(size) ==
  /\ pc = "idle"
  /\ viewport' = size
  /\ UNCHANGED <<store, text, classes, styles, pc, locals, calls, prev, aside>>

NextResize ==
  \/ \E g \in ResizeOptions, upd \in BOOLEAN : dontSeeVisualChanges("a", g, upd)
  \/ Load
  \/ Substitute
  \/ Hide
  \/ Screenshot
  \/ GetOriginal
  \/ Restore
  \/ Unhide
  \/ Store
  \/ Snapshot
  \/ Compare
  \/ DriverError
  \/ Return
  \/ \E size \in WindowSizes : ResizeWindow(size)

SpecResize == Init /\ [][NextResize]_vars

\* C25: a compare-mode call whose screenshot differs from the base image in
\* width or in height never passes.
C25_SizeDifferenceFails ==
  (/\ CompareDone
   /\ result # "DriverError"
   /\ CallBase \in DOMAIN pre.files
   /\ \/ pre.files[CallBase].width # screenshotBuffer.width
      \/ pre.files[CallBase].height # screenshotBuffer.height)
    => result # "ok"

\* ------------------------------------------------ the file system fails

\* the options of the calls made while the file system may fail
FailureOptions ==
  {NoGiven,
   [allowedMismatchedPixelsPercent |-> <<>>, preserveTexts |-> <<"body">>,
    hideElements |-> <<"p">>]}

\* a call of fs throws and nothing catches it: readFileSync or unlinkSync of
\* _getBaseIgnoredTexts, mkdirSync or writeFileSync of _storeBaseImage, the
\* writeFileSync of _updateIgnoredTexts, any fs call of _assertImagesSimilar
\* (nothing is written yet), or the unlinkSync of _updateIgnoredTexts, which
\* comes after the base image is written
FsError ==
  /\ pc \in {"load", "store", "snapshot", "assert"}
  /\ pc = "load" => existsSync(files, BaseIgnoredTextsPath(parsedConfig, screenshotName))
  /\ \/ UNCHANGED <<files, dirs, touched>>
     \/ /\ pc = "store"
        /\ existsSync(files, BaseIgnoredTextsPath(parsedConfig, screenshotName))
        /\ files' = writeFileSync(files, BaseImagePath(parsedConfig, screenshotName),
                                  screenshotBuffer)
        /\ dirs' = dirs \cup {parsedConfig.imageFolder}
        /\ touched' = touched \cup {BaseImagePath(parsedConfig, screenshotName)}
  /\ steps' = IF pc = "snapshot" THEN Append(steps, "getIgnoredTexts") ELSE steps
  /\ pc' = "done"
  /\ result' = "FsError"
  /\ UNCHANGED <<parsedConfig, page, update, screenshotName, given, options,
                 screenshotBuffer, originalTexts, baseBaseIgnoredTexts, warned, pre,
                 calls, prev, aside, shownTexts>>

NextFailures ==
  \/ \E g \in FailureOptions, upd \in BOOLEAN : dontSeeVisualChanges("a", g, upd)
  \/ Load
  \/ Substitute
  \/ Hide
  \/ Screenshot
  \/ GetOriginal
  \/ Restore
  \/ Unhide
  \/ Store
  \/ Snapshot
  \/ Compare
  \/ DriverError
  \/ FsError
  \/ Return
  \/ CorruptSnapshot

SpecFailures == Init /\ [][NextFailures]_vars

\* C26: a compare-mode call leaves the base image as it was and writes no
\* snapshot; an update-mode call leaves both as they were until it writes the
\* base image, and from then on a parseable snapshot is the one this call wrote
\* (with the diff images kept in a folder of their own).
C26_SnapshotFromBaselineCall ==
  (pc # "idle" /\ screenshotName # "" /\ parsedConfig.diffFolder # parsedConfig.imageFolder) =>
    LET parseable == CallSnap \in DOMAIN files /\ IsJson(files[CallSnap])
    IN  /\ CallBase \notin touched
          => /\ SameAsBefore(CallBase)
             /\ parseable => SameAsBefore(CallSnap)
        /\ CallBase \in touched
          => /\ update
             /\ parseable
                  => /\ pc = "done"
                     /\ result = "ok"
                     /\ options.preserveTexts # <<>>
                     /\ CallSnap \in touched

\* ------------------------------------------- the page changes by itself

\* the options of the calls made on a page that changes by itself
LiveOptions ==
  {NoGiven,
   [allowedMismatchedPixelsPercent |-> <<>>, preserveTexts |-> <<"body">>,
    hideElements |-> <<"p">>]}

\* a script of the page rewrites its time text while a call awaits the driver
PageScript(s) ==
  /\ pc \notin {"idle", "done"}
  /\ s # text["t2"]
  /\ text' = [text EXCEPT !["t2"] = s]
  /\ UNCHANGED <<store, classes, styles, viewport, pc, locals, calls, prev, aside>>

NextLive ==
  \/ \E g \in LiveOptions, upd \in BOOLEAN : dontSeeVisualChanges("a", g, upd)
  \/ Load
  \/ Substitute
  \/ Hide
  \/ Screenshot
  \/ GetOriginal
  \/ Restore
  \/ Unhide
  \/ Store
  \/ Snapshot
  \/ Compare
  \/ DriverError
  \/ Return
  \/ \E s \in Texts : PageScript(s)

SpecLive == Init /\ [][NextLive]_vars

\* C27: the snapshot an update-mode call has written holds the matched texts
\* the page showed when the call took its screenshot.
C27_SnapshotOfScreenshot ==
  (UpdateDone /\ result = "ok" /\ options.preserveTexts # <<>>) =>
    /\ CallSnap \in DOMAIN files
    /\ files[CallSnap] = JsonFile(GetIgnoredTexts(shownTexts, options.preserveTexts))

\* ------------------------------------------------ the same call, twice

\* the options of the calls that are repeated
ConsecutiveOptions ==
  [allowedMismatchedPixelsPercent : {<<>>},
   preserveTexts : {<<>>, <<"body">>},
   hideElements : {<<"p">>, <<"div">>}]

\* the caller has the outcome and keeps it, with the store and the page the
\* call leaves behind, to hold it against the outcome of the next call
ReturnKeep ==
  /\ pc = "done"
  /\ other' = [ThisCall EXCEPT !.pre = [files |-> files, dirs |-> dirs, text |-> text,
                                        classes |-> classes, styles |-> styles]]
  /\ pc' = "idle"
  /\ prev' = IF update /\ result = "ok"
             THEN [name |-> screenshotName, shot |-> screenshotBuffer]
             ELSE NoPrev
  /\ update' = FALSE
  /\ screenshotName' = ""
  /\ given' = NoGiven
  /\ options' = NoOptions
  /\ screenshotBuffer' = NoImage
  /\ originalTexts' = <<>>
  /\ baseBaseIgnoredTexts' = <<>>
  /\ result' = ""
  /\ steps' = <<>>
  /\ warned' = FALSE
  /\ touched' = {}
  /\ shownTexts' = <<>>
  /\ pre' = NoPre
  /\ UNCHANGED <<store, page, calls, trail>>

NextConsecutive ==
  \/ \E g \in ConsecutiveOptions, upd \in BOOLEAN : dontSeeVisualChanges("a", g, upd)
  \/ Load
  \/ Substitute
  \/ Hide
  \/ Screenshot
  \/ GetOriginal
  \/ Restore
  \/ Unhide
  \/ Store
  \/ Snapshot
  \/ Compare
  \/ DriverError
  \/ ReturnKeep
  \/ \E load \in PageLoads : AmOnPage(load)

SpecConsecutive == Init /\ [][NextConsecutive]_vars

\* this call is a compare-mode call that came to its verdict, and so was the
\* call before it, with the same name and options; the call before left the
\* base image and the snapshot alone, and this call began with the store and
\* the page as the call before left them
SecondOfTwo ==
  /\ CompareDone
  /\ result # "DriverError"
  /\ other.pc = "done"
  /\ ~other.update
  /\ other.result # "DriverError"
  /\ other.screenshotName = screenshotName
  /\ other.given = given
  /\ other.touched \cap {CallBase, CallSnap} = {}
  /\ other.pre = pre

\* C28: the second of two such calls has the same screenshot and the same
\* verdict as the first.
C28_SecondCallSame ==
  SecondOfTwo =>
    /\ screenshotBuffer = other.screenshotBuffer
    /\ result = other.result

============================================================================
